---- MODULE Spec2Model ----
(***************************************************************************)
(* CloudConductor: the Google Instance processor (create / destroy / run / *)
(* status reconciliation / readiness polling, with command retry) and the  *)
(* GAP driver's task graph, as state machines.                             *)
(*                                                                         *)
(* Every method of Instance is a sequence of steps of a thread.  A thread  *)
(* owns a call stack of frames [fn, pc, name, proc, n] (top first); a step *)
(* is the code between two points where the thread blocks or reads state   *)
(* that the provider or another thread writes.  An exception unwinds the   *)
(* stack within the step that raises it.                                   *)
(***************************************************************************)
EXTENDS Naturals, Integers, Sequences, FiniteSets, TLC

\* ------------------------------------------------------------- bounds
MaxRetries == 2      \* default_num_cmd_retries is drawn from 0..MaxRetries
MaxOps     == 2      \* top-level operations invoked on the resource
MaxProcs   == 4      \* Process objects alive at one time
MaxCycle   == 60     \* wait_until_ready, line 213: "while cycle_count < 60"

Threads    == {1, 2}
Jobs       == {"job"}                       \* task identifiers given to run()
ProcNames  == {"create", "destroy"} \cup Jobs
Snapshots  == {1, 2}                        \* provider price lists

OFF        == "OFF"
CREATING   == "CREATING"
AVAILABLE  == "AVAILABLE"
DESTROYING == "DESTROYING"
None       == "None"
Statuses   == {OFF, CREATING, AVAILABLE, DESTROYING}

VARIABLES
    self,       \* the Instance object's fields
    procs,      \* the Process objects, by slot
    gcloud,     \* the provider: phase of the instance and its READY marker
    stack,      \* per thread: call stack, top first
    ret,        \* per thread: value returned by the last call
    cur,        \* per thread: the top-level operation in progress or last ended
    ops,        \* number of top-level operations invoked so far
    sched       \* the task manager: the registered tasks and their statuses

vars == <<self, procs, gcloud, stack, ret, cur, ops, sched>>

\* ------------------------------------------------------------- the provider
\* What get_instance_status can report in each phase of an existing instance.
Reported(phase) ==
    IF phase = "booting" THEN {"PROVISIONING", "STAGING"}
    ELSE IF phase = "running" THEN {"RUNNING"}
    ELSE IF phase = "stopping" THEN {"STOPPING", "TERMINATED"}
    ELSE {"SUSPENDING", "SUSPENDED"}

\* GoogleCloudHelper.get_optimal_instance_type / get_instance_price: the
\* cheapest machine type of the price list that satisfies the request; the
\* resolved cpu/mem may exceed the request.
Catalog(snapshot) ==
    IF snapshot = 1
    THEN { [type |-> "n1-standard-1", cpus |-> 1, mem |-> 4, price |-> 5],
           [type |-> "n1-standard-2", cpus |-> 2, mem |-> 8, price |-> 10] }
    ELSE { [type |-> "n1-standard-1", cpus |-> 1, mem |-> 4, price |-> 12],
           [type |-> "n1-standard-2", cpus |-> 2, mem |-> 8, price |-> 11] }

get_optimal_instance_type(nr_cpus, mem, snapshot) ==
    LET fits == { m \in Catalog(snapshot) : m.cpus >= nr_cpus /\ m.mem >= mem }
    IN  CHOOSE m \in fits : \A o \in fits : m.price <= o.price

\* ------------------------------------------------------------- frames
Frame(fn, pc, name, proc, n) ==
    [fn |-> fn, pc |-> pc, name |-> name, proc |-> proc, n |-> n]

Top(t) == Head(stack[t])

At(t, fn, pc) == stack[t] # <<>> /\ Top(t).fn = fn /\ Top(t).pc = pc

\* Bookkeeping of one top-level operation (not program state): its name, its
\* result ("running", "ok" or the error raised) and returned value, the
\* create commands it launched, the statuses its handle_failure calls
\* reconciled, and what happened in it.
NewOp(name) ==
    [name |-> name, result |-> "running", value |-> None, launched |-> 0,
     seen |-> {}, tags |-> {}, timeouts |-> 0, recDestroys |-> 0,
     recCreates |-> 0, polls |-> 0, resetsAtLock |-> 0]

Tag(c, tag) == [c EXCEPT !.tags = @ \cup {tag}]

\* ------------------------------------------------------------- Process
NoProcess ==
    [name |-> "-", num_retries |-> 0, exited |-> FALSE, ok |-> FALSE,
     complete |-> FALSE, out |-> None]

\* Process(cmd, ..., num_retries=r): Popen starts the command at construction
Process(name, num_retries) ==
    [name |-> name, num_retries |-> num_retries, exited |-> FALSE, ok |-> FALSE,
     complete |-> FALSE, out |-> None]

has_failed(p) == p.exited /\ ~p.ok

FreeSlots(p) == { id \in 1..MaxProcs : p[id] = NoProcess }

NewId(p) == CHOOSE id \in FreeSlots(p) : \A o \in FreeSlots(p) : id <= o

\* self.processes[name] = Process(..., num_retries=r)
Launch(p, name, num_retries) == [p EXCEPT ![NewId(p)] = Process(name, num_retries)]

Launched(s, p, name) == [s EXCEPT !.processes[name] = NewId(p)]

CountLaunch(c, name) ==
    IF name = "create" THEN [c EXCEPT !.launched = @ + 1] ELSE c

\* A Process object is collected once its command has exited and neither
\* self.processes nor a frame that still reads its proc_obj refers to it.
Referenced(id, s, stacks) ==
    \/ \E name \in ProcNames : s.processes[name] = id
    \/ \E t \in Threads : \E i \in 1..Len(stacks[t]) :
          /\ stacks[t][i].pc \in {"communicate", "locked", "decide"}
          /\ stacks[t][i].fn \in {"wait_process", "handle_failure"}
          /\ stacks[t][i].proc = id

Collect(p, s, stacks) ==
    [id \in 1..MaxProcs |->
        IF p[id].exited /\ ~Referenced(id, s, stacks) THEN NoProcess ELSE p[id]]

\* ------------------------------------------------------------- control
\* The stack after an exception leaves the top frame: frames are popped down
\* to the nearest __sync_status (lines 266-275: its try/except catches
\* BaseException); one with retries left polls again, one with none re-raises.
RECURSIVE Catch(_)
Catch(st) ==
    IF st = <<>> THEN <<>>
    ELSE IF Head(st).fn = "__sync_status"
         THEN IF Head(st).n > 0
              THEN <<[Head(st) EXCEPT !.n = @ - 1]>> \o Tail(st)
              ELSE Catch(Tail(st))
         ELSE Catch(Tail(st))

\* frames whose remaining code is "return what the callee returned"
RECURSIVE PopReturns(_)
PopReturns(st) ==
    IF st # <<>> /\ Head(st).pc = "return" THEN PopReturns(Tail(st)) ELSE st

HoldsLock(st) ==
    \E i \in 1..Len(st) : st[i].fn = "get_status" /\ st[i].pc = "locked"

Finish(t, s, p, c, st, v) ==
    /\ stack' = [stack EXCEPT ![t] = st]
    /\ self' = s
    /\ procs' = Collect(p, s, [stack EXCEPT ![t] = st])
    /\ cur' = [cur EXCEPT ![t] = c]
    /\ ret' = [ret EXCEPT ![t] = v]

\* raise e in thread t, the step having made the fields s and the processes p;
\* "with self.status_lock" releases the lock when the exception leaves it
Raise(t, s, p, c, e) ==
    LET st == Catch(stack[t])
        s1 == IF s.status_lock = t /\ ~HoldsLock(st)
              THEN [s EXCEPT !.status_lock = 0] ELSE s
    IN  IF st = <<>>
        THEN Finish(t, s1, p, [c EXCEPT !.result = e], st, None)
        ELSE Finish(t, s1, p, c, <<[Head(st) EXCEPT !.pc = "poll"]>> \o Tail(st), None)

\* return v from the top frame of thread t
Return(t, s, p, c, v) ==
    LET st == PopReturns(Tail(stack[t])) IN
    IF st = <<>>
    THEN Finish(t, s, p, [c EXCEPT !.result = "ok", !.value = v], st, None)
    ELSE Finish(t, s, p, c, st, v)

\* continue in the same frame at pc
Goto(t, s, p, c, pc) ==
    Finish(t, s, p, c, <<[Top(t) EXCEPT !.pc = pc]>> \o Tail(stack[t]), None)

\* call: push frame f; the caller resumes at pc
Call(t, s, p, c, pc, f) ==
    Finish(t, s, p, c, <<f, [Top(t) EXCEPT !.pc = pc]>> \o Tail(stack[t]), None)

\* ------------------------------------------------------------- Init
\* Instance.__init__ (lines 12-45) with default_num_cmd_retries = n
NewInstance(n) ==
    /\ self = [ locked |-> FALSE, status |-> OFF, status_lock |-> 0,
                default_num_cmd_retries |-> n,
                nr_cpus |-> 1, mem |-> 4, instance_type |-> None, price |-> 0,
                startup_script_complete |-> FALSE, creation_resets |-> 0,
                start_time |-> 0, stop_time |-> 0,
                processes |-> [nm \in ProcNames |-> 0] ]
    /\ procs = [id \in 1..MaxProcs |-> NoProcess]
    /\ gcloud = [phase |-> "absent", ready |-> FALSE]
    /\ stack = [t \in Threads |-> <<>>]
    /\ ret = [t \in Threads |-> None]
    /\ cur = [t \in Threads |-> NewOp("none")]
    /\ ops = 0

\* the task manager before any task is registered
NoTasks == [tasks |-> <<>>, status |-> <<>>, idle |-> 0, result |-> "running"]

Init ==
    /\ \E n \in 0..MaxRetries : NewInstance(n)
    /\ sched = NoTasks

\* ------------------------------------------------------------- top level
Begin(t, name, f) ==
    /\ stack[t] = <<>>
    /\ ops < MaxOps
    /\ stack' = [stack EXCEPT ![t] = <<f>>]
    /\ cur' = [cur EXCEPT ![t] = NewOp(name)]
    /\ ops' = ops + 1
    /\ UNCHANGED <<self, procs, gcloud, ret, sched>>

CallCreate(t) == Begin(t, "create", Frame("create", "check", "create", 0, 0))

CallDestroy(t) ==
    \E wait \in BOOLEAN :
        Begin(t, "destroy", Frame("destroy", "launch", "destroy", 0, IF wait THEN 1 ELSE 0))

CallRun(t) ==
    \E job \in Jobs :
        Begin(t, "run", Frame("run", "launch", job, 0, self.default_num_cmd_retries))

CallGetStatus(t) == Begin(t, "get_status", Frame("get_status", "acquire", "-", 0, 0))

CallWaitProcess(t) ==
    \E name \in ProcNames :
        /\ self.processes[name] # 0
        /\ Begin(t, "wait_process", Frame("wait_process", "lookup", name, 0, 0))

\* ------------------------------------------------------------- create()
\* create() without the check of line 61
create_never_refused(locked) == FALSE

\* line 61: "if self.is_locked()"
create_refused(locked) == locked

\* lines 61-63
create_check(t) ==
    /\ At(t, "create", "check")
    /\ IF create_refused(self.locked)
       THEN Raise(t, self, procs, cur[t], "locked_create")
       ELSE Goto(t, self, procs, cur[t], "launch")
    /\ UNCHANGED <<gcloud, ops, sched>>

\* create() assigning the resolved type but leaving the price as it was
resolved_without_price(s, m) ==
    [s EXCEPT !.nr_cpus = m.cpus, !.mem = m.mem, !.instance_type = m.type]

\* lines 68-81: the fields create() assigns from the machine type m that
\* the resolver answered
resolved(s, m) ==
    [s EXCEPT !.nr_cpus = m.cpus, !.mem = m.mem,
              !.instance_type = m.type, !.price = m.price]

\* lines 68-94: resolve type and price from the current prices (the price
\* list in force at the resource's first create is list 1), start the
\* provisioning command and wait for it
create_launch(t) ==
    /\ At(t, "create", "launch")
    /\ \E snapshot \in IF self.instance_type = None THEN {1} ELSE Snapshots :
        LET m == get_optimal_instance_type(self.nr_cpus, self.mem, snapshot)
            s == resolved(Launched(self, procs, "create"), m)
        IN  Call(t, s, Launch(procs, "create", self.default_num_cmd_retries),
                 CountLaunch(cur[t], "create"), "ready",
                 Frame("wait_process", "lookup", "create", 0, 0))
    /\ UNCHANGED <<gcloud, ops, sched>>

\* lines 98-99
create_ready(t) ==
    /\ At(t, "create", "ready")
    /\ Call(t, [self EXCEPT !.startup_script_complete = FALSE], procs, cur[t],
            "return", Frame("wait_until_ready", "loop", "-", 0, 1))
    /\ UNCHANGED <<gcloud, ops, sched>>

\* ------------------------------------------------------------- destroy()
\* lines 106-118; frame.n = 1 is wait=True
destroy_launch(t) ==
    /\ At(t, "destroy", "launch")
    /\ LET s == Launched(self, procs, "destroy")
           p == Launch(procs, "destroy", self.default_num_cmd_retries)
       IN  IF Top(t).n = 1
           THEN Call(t, s, p, cur[t], "return",
                     Frame("wait_process", "lookup", "destroy", 0, 0))
           ELSE Return(t, s, p, cur[t], None)
    /\ UNCHANGED <<gcloud, ops, sched>>

\* ------------------------------------------------------------- run()
\* Processor.run: refuses on a locked processor, starts the command under the
\* job's name and blocks for it; frame.n is num_retries
run_launch(t) ==
    /\ At(t, "run", "launch")
    /\ IF self.locked
       THEN Raise(t, self, procs, cur[t], "locked_run")
       ELSE Call(t, Launched(self, procs, Top(t).name),
                 Launch(procs, Top(t).name, Top(t).n), cur[t], "return",
                 Frame("wait_process", "lookup", Top(t).name, 0, 0))
    /\ UNCHANGED <<gcloud, ops, sched>>

\* ------------------------------------------------------------- wait_process()
\* wait_process without the test of line 125
wait_lookup_always_communicating(t) ==
    /\ At(t, "wait_process", "lookup")
    /\ Finish(t, self, procs, cur[t],
              <<[Top(t) EXCEPT !.pc = "communicate", !.proc = self.processes[Top(t).name]]>>
                  \o Tail(stack[t]),
              None)
    /\ UNCHANGED <<gcloud, ops, sched>>

\* lines 122-126: a completed executor returns its stored output
wait_lookup(t) ==
    /\ At(t, "wait_process", "lookup")
    /\ LET id == self.processes[Top(t).name] IN
       IF procs[id].complete
       THEN Return(t, self, procs, Tag(cur[t], "cached"), procs[id].out)
       ELSE Finish(t, self, procs, cur[t],
                   <<[Top(t) EXCEPT !.pc = "communicate", !.proc = id]>> \o Tail(stack[t]),
                   None)
    /\ UNCHANGED <<gcloud, ops, sched>>

\* a successful destroy taken for a create
StampAlwaysStart(proc_name) ==
    IF proc_name \in {"create", "destroy"} THEN "start" ELSE "none"

\* lines 144-151: the timestamp a finished command sets
StampOf(proc_name) ==
    IF proc_name = "create" THEN "start"
    ELSE IF proc_name = "destroy" THEN "stop" ELSE "none"

\* Processor.set_start_time / set_stop_time read the clock.  Timestamps are
\* kept by their order: 0 is "not set", and a new reading is later than the
\* other timestamp, which becomes 1 if it is set.
set_start_time(s) ==
    [s EXCEPT !.start_time = IF s.stop_time = 0 THEN 1 ELSE 2,
              !.stop_time  = IF @ = 0 THEN 0 ELSE 1]

set_stop_time(s) ==
    [s EXCEPT !.stop_time  = IF s.start_time = 0 THEN 1 ELSE 2,
              !.start_time = IF @ = 0 THEN 0 ELSE 1]

\* a wait that is given up once the resource is locked
communicate_abandoned(p, locked) == p.exited \/ locked

\* line 129: proc_obj.communicate() returns once the command has exited,
\* whatever the lock flag
communicate_returns(p, locked) == p.exited

\* lines 129-157
wait_communicate(t) ==
    /\ At(t, "wait_process", "communicate")
    /\ LET id   == Top(t).proc
           name == Top(t).name
           out  == IF procs[id].ok THEN "out" ELSE "err"
           p    == [procs EXCEPT ![id].complete = TRUE, ![id].out = out]
       IN
       /\ communicate_returns(procs[id], self.locked)
       /\ IF has_failed(procs[id])
          THEN Call(t, self, p, cur[t], "lookup",
                    Frame("handle_failure", "locked", name, id, 0))
          ELSE LET stamp == StampOf(name)
                   s == IF stamp = "start" THEN set_start_time(self)
                        ELSE IF stamp = "stop" THEN set_stop_time(self)
                        ELSE self
                   c == IF stamp = "start" /\ self.locked
                        THEN Tag(Tag(cur[t], "cmd_ok"), "start_while_locked")
                        ELSE Tag(cur[t], "cmd_ok")
               IN  Return(t, s, p, c, out)
    /\ UNCHANGED <<gcloud, ops, sched>>

\* ------------------------------------------------------------- handle_failure()
\* line 165 without the exemption of destroy
fail_if_locked_also_destroy(locked, proc_name) == locked

\* line 165
fail_if_locked(locked, proc_name) == locked /\ proc_name # "destroy"

\* the table with the AVAILABLE branch not excluding "create"
can_retry_any_when_available(proc_name, curr_status, num_retries) ==
    IF curr_status = OFF
    THEN proc_name = "create" /\ num_retries > 0
    ELSE IF curr_status = CREATING
    THEN proc_name = "destroy" /\ num_retries > 0
    ELSE IF curr_status = AVAILABLE
    THEN num_retries > 0
    ELSE IF curr_status = DESTROYING
    THEN proc_name = "destroy" /\ num_retries > 0
    ELSE FALSE

\* the table without the "num_retries > 0" conjuncts
can_retry_without_budget(proc_name, curr_status, num_retries) ==
    IF curr_status = OFF
    THEN proc_name = "create"
    ELSE IF curr_status = CREATING
    THEN proc_name = "destroy"
    ELSE IF curr_status = AVAILABLE
    THEN proc_name # "create"
    ELSE IF curr_status = DESTROYING
    THEN proc_name = "destroy"
    ELSE FALSE

\* lines 162, 170-182: can_retry stays False when no branch matches
can_retry(proc_name, curr_status, num_retries) ==
    IF curr_status = OFF
    THEN proc_name = "create" /\ num_retries > 0
    ELSE IF curr_status = CREATING
    THEN proc_name = "destroy" /\ num_retries > 0
    ELSE IF curr_status = AVAILABLE
    THEN num_retries > 0 /\ proc_name # "create"
    ELSE IF curr_status = DESTROYING
    THEN proc_name = "destroy" /\ num_retries > 0
    ELSE FALSE

\* lines 164-168
hf_locked(t) ==
    /\ At(t, "handle_failure", "locked")
    /\ IF fail_if_locked(self.locked, Top(t).name)
       THEN Raise(t, self, procs, Tag(cur[t], "hf_locked"), "failed")
       ELSE Call(t, self, procs, cur[t], "decide",
                 Frame("get_status", "acquire", "-", 0, 0))
    /\ UNCHANGED <<gcloud, ops, sched>>

\* handle_failure without the early return of lines 171-172
hf_decide_raising_at_off(t) ==
    /\ At(t, "handle_failure", "decide")
    /\ LET name    == Top(t).name
           old     == procs[Top(t).proc]
           status  == ret[t]
           retry   == can_retry(name, status, old.num_retries)
           c       == [cur[t] EXCEPT !.seen = @ \cup {status}]
       IN
       IF retry /\ name \in {"create", "destroy"}
       THEN Raise(t, Launched(self, procs, name),
                  Launch(procs, name, old.num_retries - 1),
                  Tag(CountLaunch(c, name), "raised_after_retry"), "failed")
       ELSE IF retry
       THEN Call(t, self, procs, c, "raise",
                 Frame("run", "launch", name, 0, old.num_retries - 1))
       ELSE Raise(t, self, procs, c, "failed")
    /\ UNCHANGED <<gcloud, ops, sched>>

\* lines 168-206: line 206 (raise_error) is reached on every path but the
\* early return of line 172, also after a retry command was started
hf_decide(t) ==
    /\ At(t, "handle_failure", "decide")
    /\ LET name    == Top(t).name
           old     == procs[Top(t).proc]
           status  == ret[t]
           retry   == can_retry(name, status, old.num_retries)
           c       == [cur[t] EXCEPT !.seen = @ \cup {status}]
       IN
       IF status = OFF /\ name = "destroy"
       THEN Return(t, self, procs, Tag(c, "destroy_off"), None)
       ELSE IF retry /\ name \in {"create", "destroy"}
       THEN Raise(t, Launched(self, procs, name),
                  Launch(procs, name, old.num_retries - 1),
                  Tag(CountLaunch(c, name), "raised_after_retry"), "failed")
       ELSE IF retry
       THEN Call(t, self, procs, c, "raise",
                 Frame("run", "launch", name, 0, old.num_retries - 1))
       ELSE Raise(t, self, procs, c, "failed")
    /\ UNCHANGED <<gcloud, ops, sched>>

\* line 206, after self.run(...) of line 199 returned
hf_raise(t) ==
    /\ At(t, "handle_failure", "raise")
    /\ Raise(t, self, procs, Tag(cur[t], "raised_after_retry"), "failed")
    /\ UNCHANGED <<gcloud, ops, sched>>

\* ------------------------------------------------------------- get_status()
\* get_status entered without taking the lock
lock_ignored(status_lock) == TRUE

\* line 48: "with self.status_lock" blocks until no thread holds the lock; a
\* thread that already holds it blocks here for ever
lock_free(status_lock) == status_lock = 0

gs_acquire(t) ==
    /\ At(t, "get_status", "acquire")
    /\ lock_free(self.status_lock)
    /\ Call(t, [self EXCEPT !.status_lock = t], procs, cur[t], "locked",
            Frame("__sync_status", "poll", "-", 0, self.default_num_cmd_retries))
    /\ UNCHANGED <<gcloud, ops, sched>>

\* lines 49-51
gs_store(t) ==
    /\ At(t, "get_status", "locked")
    /\ Return(t, [self EXCEPT !.status = ret[t], !.status_lock = 0], procs, cur[t], ret[t])
    /\ UNCHANGED <<gcloud, ops, sched>>

\* lines 264-267: frame.n is retries; the except branch is Catch
sync_poll(t) ==
    /\ At(t, "__sync_status", "poll")
    /\ Call(t, self, procs, cur[t], "return", Frame("__poll_status", "exists", "-", 0, 0))
    /\ UNCHANGED <<gcloud, ops, sched>>

\* lines 285-298: the status for what the provider reports for an existing
\* instance; "poll" stands for "RUNNING: ask poll_startup_script"; a state
\* no branch names falls off the end of the function
StatusOf(status, startup_script_complete) ==
    IF status \in {"TERMINATED", "STOPPING"} THEN DESTROYING
    ELSE IF status \in {"PROVISIONING", "STAGING"} THEN CREATING
    ELSE IF status = "RUNNING"
    THEN IF startup_script_complete THEN AVAILABLE ELSE "poll"
    ELSE None

\* lines 279-281; the provider call may fail
poll_exists(t) ==
    /\ At(t, "__poll_status", "exists")
    /\ \E error \in BOOLEAN :
        IF error THEN Raise(t, self, procs, cur[t], "status_error")
        ELSE IF gcloud.phase = "absent"
        THEN Return(t, [self EXCEPT !.startup_script_complete = FALSE], procs, cur[t], OFF)
        ELSE Goto(t, self, procs, cur[t], "status")
    /\ UNCHANGED <<gcloud, ops, sched>>

\* lines 284-294; the call fails when the instance has gone, and may fail anyway
poll_state(t) ==
    /\ At(t, "__poll_status", "status")
    /\ \/ Raise(t, self, procs, cur[t], "status_error")
       \/ /\ gcloud.phase # "absent"
          /\ \E status \in Reported(gcloud.phase) :
              LET st == StatusOf(status, self.startup_script_complete) IN
              IF st = "poll"
              THEN Call(t, self, procs, cur[t], "ready",
                        Frame("poll_startup_script", "describe", "-", 0, 0))
              ELSE IF st = None
              THEN Return(t, self, procs, cur[t], None)
              ELSE Return(t, [self EXCEPT !.startup_script_complete = (st = AVAILABLE)],
                          procs, cur[t], st)
    /\ UNCHANGED <<gcloud, ops, sched>>

\* lines 294-298
poll_ready(t) ==
    /\ At(t, "__poll_status", "ready")
    /\ Return(t, [self EXCEPT !.startup_script_complete = ret[t]], procs, cur[t],
              IF ret[t] THEN AVAILABLE ELSE CREATING)
    /\ UNCHANGED <<gcloud, ops, sched>>

\* ------------------------------------------------------------- poll_startup_script()
\* The frames that an exception raised by the top frame's function leaves
\* behind: those up to the __sync_status that would catch it.  Callers that no
\* handler protects are never resumed.
RECURSIVE Guarded(_)
Guarded(st) ==
    IF st = <<>> THEN <<>>
    ELSE IF Head(st).fn = "__sync_status" THEN st
    ELSE Guarded(Tail(st))

\* lines 302-315: describe fails when the instance has gone, and may fail
\* anyway; the handler logs get_status() and re-raises
pss_describe(t) ==
    /\ At(t, "poll_startup_script", "describe")
    /\ LET c == IF "locked_in_poll" \in cur[t].tags /\ Len(stack[t]) > 1
                   /\ stack[t][2].fn = "wait_until_ready"
                THEN [cur[t] EXCEPT !.polls = @ + 1] ELSE cur[t]
       IN
       \/ LET below == Guarded(Tail(stack[t]))
               kept  == IF below = <<>> THEN <<>> ELSE Tail(stack[t])
           IN  Finish(t, self, procs, c,
                      <<Frame("get_status", "acquire", "-", 0, 0),
                        [Top(t) EXCEPT !.pc = "reraise"]>> \o kept, None)
       \/ /\ gcloud.phase # "absent"
          /\ Return(t, self, procs, c, gcloud.ready)
    /\ UNCHANGED <<gcloud, ops, sched>>

\* line 309
pss_reraise(t) ==
    /\ At(t, "poll_startup_script", "reraise")
    /\ Raise(t, self, procs, cur[t], "describe_error")
    /\ UNCHANGED <<gcloud, ops, sched>>

\* ------------------------------------------------------------- wait_until_ready()
\* the loop condition without "and not self.is_locked()"
keeps_polling_while_locked(cycle_count, startup_script_complete, locked) ==
    cycle_count < MaxCycle /\ ~startup_script_complete

\* line 213: the loop condition
keeps_polling(cycle_count, startup_script_complete, locked) ==
    cycle_count < MaxCycle /\ ~startup_script_complete /\ ~locked

\* line 227 with <= for <
can_reset_once_more(creation_resets, default_num_cmd_retries) ==
    creation_resets <= default_num_cmd_retries

\* line 227
can_reset(creation_resets, default_num_cmd_retries) ==
    creation_resets < default_num_cmd_retries

\* lines 219-241: what follows the loop
after_loop(locked, startup_script_complete, creation_resets, default_num_cmd_retries) ==
    IF locked THEN "locked"
    ELSE IF ~startup_script_complete
    THEN IF can_reset(creation_resets, default_num_cmd_retries) THEN "reset" ELSE "give_up"
    ELSE "ready"

\* lines 213-241; frame.n is cycle_count
wur_loop(t) ==
    /\ At(t, "wait_until_ready", "loop")
    /\ IF keeps_polling(Top(t).n, self.startup_script_complete, self.locked)
       THEN Finish(t, self, procs, cur[t],
                   <<Frame("poll_startup_script", "describe", "-", 0, 0),
                     [Top(t) EXCEPT !.pc = "store", !.n = @ + 1]>> \o Tail(stack[t]),
                   None)
       ELSE LET what == after_loop(self.locked, self.startup_script_complete,
                                   self.creation_resets, self.default_num_cmd_retries)
                c    == IF what \in {"reset", "give_up"}
                        THEN [cur[t] EXCEPT !.timeouts = @ + 1] ELSE cur[t]
            IN
            IF what = "locked" THEN Raise(t, self, procs, c, "locked_wait")
            ELSE IF what = "reset"
            THEN Call(t, [self EXCEPT !.creation_resets = @ + 1], procs,
                      [c EXCEPT !.recDestroys = @ + 1], "recreate",
                      Frame("destroy", "launch", "destroy", 0, 1))
            ELSE IF what = "give_up" THEN Raise(t, self, procs, c, "never_ready")
            ELSE Return(t, self, procs, c, None)
    /\ UNCHANGED <<gcloud, ops, sched>>

\* line 216
wur_store(t) ==
    /\ At(t, "wait_until_ready", "store")
    /\ Goto(t, [self EXCEPT !.startup_script_complete = ret[t]], procs, cur[t], "loop")
    /\ UNCHANGED <<gcloud, ops, sched>>

\* line 231
wur_recreate(t) ==
    /\ At(t, "wait_until_ready", "recreate")
    /\ Call(t, self, procs, [cur[t] EXCEPT !.recCreates = @ + 1], "return",
            Frame("create", "check", "create", 0, 0))
    /\ UNCHANGED <<gcloud, ops, sched>>

\* ------------------------------------------------------------- the provider
\* A started command exits.  A create command succeeds only if no instance
\* of that name exists, a delete only on an existing instance and a job only
\* on a running one; any command may fail.
CommandExits ==
    \E id \in 1..MaxProcs, ok \in BOOLEAN :
        /\ procs[id] # NoProcess
        /\ ~procs[id].exited
        /\ procs' = Collect([procs EXCEPT ![id].exited = TRUE, ![id].ok = ok], self, stack)
        /\ IF ~ok THEN gcloud' = gcloud
           ELSE IF procs[id].name = "create"
           THEN /\ gcloud.phase = "absent"
                /\ gcloud' = [phase |-> "booting", ready |-> FALSE]
           ELSE IF procs[id].name = "destroy"
           THEN /\ gcloud.phase # "absent"
                /\ gcloud' = [phase |-> "absent", ready |-> FALSE]
           ELSE /\ gcloud.phase = "running"
                /\ gcloud' = gcloud
        /\ UNCHANGED <<self, stack, ret, cur, ops, sched>>

\* the instance boots
ProviderBoots ==
    /\ gcloud.phase = "booting"
    /\ gcloud' = [gcloud EXCEPT !.phase = "running"]
    /\ UNCHANGED <<self, procs, stack, ret, cur, ops, sched>>

\* the startup script ends and writes READY into the instance metadata
StartupScriptEnds ==
    /\ gcloud.phase = "running"
    /\ ~gcloud.ready
    /\ gcloud' = [gcloud EXCEPT !.ready = TRUE]
    /\ UNCHANGED <<self, procs, stack, ret, cur, ops, sched>>

\* the instance is stopped or suspended from outside
ProviderStops ==
    /\ gcloud.phase = "running"
    /\ \E to \in {"stopping", "suspended"} : gcloud' = [gcloud EXCEPT !.phase = to]
    /\ UNCHANGED <<self, procs, stack, ret, cur, ops, sched>>

\* Processor.lock: the platform locks the resource
InLoop(st) ==
    \E i \in 1..Len(st) : st[i].fn = "wait_until_ready" /\ st[i].pc \in {"loop", "store"}

InFlight(st) ==
    /\ st # <<>>
    /\ Head(st).fn = "wait_process" /\ Head(st).pc = "communicate"
    /\ Head(st).name # "destroy"
    /\ ~procs[Head(st).proc].exited

Lock ==
    /\ ~self.locked
    /\ self' = [self EXCEPT !.locked = TRUE]
    /\ cur' = [t \in Threads |->
                 LET c1 == IF InLoop(stack[t])
                           THEN [Tag(cur[t], "locked_in_poll") EXCEPT
                                    !.resetsAtLock = self.creation_resets]
                           ELSE cur[t]
                 IN  IF InFlight(stack[t]) THEN Tag(c1, "locked_in_flight") ELSE c1]
    /\ UNCHANGED <<procs, gcloud, stack, ret, ops, sched>>

\* ------------------------------------------------------------- Next
Step(t) ==
    \/ CallCreate(t) \/ CallDestroy(t) \/ CallRun(t) \/ CallGetStatus(t)
    \/ CallWaitProcess(t)
    \/ create_check(t) \/ create_launch(t) \/ create_ready(t)
    \/ destroy_launch(t)
    \/ run_launch(t)
    \/ wait_lookup(t) \/ wait_communicate(t)
    \/ hf_locked(t) \/ hf_decide(t) \/ hf_raise(t)
    \/ gs_acquire(t) \/ gs_store(t) \/ sync_poll(t)
    \/ poll_exists(t) \/ poll_state(t) \/ poll_ready(t)
    \/ pss_describe(t) \/ pss_reraise(t)
    \/ wur_loop(t) \/ wur_store(t) \/ wur_recreate(t)

Environment ==
    \/ CommandExits \/ ProviderBoots \/ StartupScriptEnds \/ ProviderStops \/ Lock

\* one thread drives the resource
Next == Step(1) \/ Environment

Spec == Init /\ [][Next]_vars

\* two threads drive the resource, each invoking one operation: the first
\* any operation, the second a status poll
Invokes(t) == stack[t] = <<>> /\ stack'[t] # <<>>

FirstCall(t) == Invokes(t) => cur[t].name = "none"

NextConc ==
    \/ Step(1) /\ FirstCall(1)
    \/ Step(2) /\ FirstCall(2) /\ (Invokes(2) => cur'[2].name = "get_status")
    \/ Environment

SpecConc == Init /\ [][NextConc]_vars


\* ------------------------------------------------------------- the driver
MaxSplit == 3        \* splits the splitter may report: 1..MaxSplit

Nodes == {1, 2}                  \* config.cluster.nodes
Goals == {"align", "other"}      \* config.general.goal

Task(name, type, requires) == [name |-> name, type |-> type, requires |-> requires]

\* "align_%d" % split_id
align_name(split_id) == <<"align", split_id>>

\* the requires list built with range(1, split_count)
merge_requires_but_last(split_count) ==
    { align_name(split_id) : split_id \in 1..(split_count - 1) }

\* GAP.py line 83: ["align_%d" % split_id for split_id in range(1, split_count+1)]
merge_requires(split_count) ==
    { align_name(split_id) : split_id \in 1..split_count }

\* GAP.py lines 32-74: the align tasks, registered only for the goal "align"
align_tasks(splitted, goal, split_count) ==
    IF goal # "align" THEN <<>>
    ELSE IF splitted
    THEN [split_id \in 1..split_count |-> Task(align_name(split_id), "align", {})]
    ELSE <<Task(<<"align", 0>>, "align", {})>>

\* GAP.py lines 76-88: the merge task, registered whenever the run is split
merge_tasks(splitted, split_count) ==
    IF splitted
    THEN <<Task(<<"merge", 0>>, "merge", merge_requires(split_count))>>
    ELSE <<>>

\* GAP.py lines 25-88: the tasks handed to the task manager, in addTask
\* order; count is what splitter.byNrReads returns
Graph(nodes, goal, count) ==
    LET splitted    == nodes > 1
        split_count == IF splitted THEN count ELSE 0
    IN  align_tasks(splitted, goal, split_count) \o merge_tasks(splitted, split_count)

\* ------------------------------------------------------------- the task manager
\* Task statuses: a task registered with no prerequisite is Ready at once.
Registered(tasks) ==
    [tasks  |-> tasks,
     status |-> [i \in 1..Len(tasks) |->
                    IF tasks[i].requires = {} THEN "Ready" ELSE "Pending"],
     idle   |-> 0,
     result |-> "running"]

TaskIds == 1..Len(sched.tasks)

\* the status of the task called name; a name no task was registered under
\* has none
StatusByName(name) ==
    IF \E i \in TaskIds : sched.tasks[i].name = name
    THEN sched.status[CHOOSE i \in TaskIds : sched.tasks[i].name = name]
    ELSE "Unregistered"

RequiresComplete(i) ==
    \A name \in sched.tasks[i].requires : StatusByName(name) = "Complete"

AnyFailed == \E i \in TaskIds : sched.status[i] = "Failed"

SchedStep(s) ==
    /\ sched.result = "running"
    /\ sched' = s
    /\ UNCHANGED <<self, procs, gcloud, stack, ret, cur, ops>>

\* step 1: Pending tasks whose prerequisites are all Complete become Ready
RecomputeReady ==
    /\ \E i \in TaskIds : sched.status[i] = "Pending" /\ RequiresComplete(i)
    /\ SchedStep([sched EXCEPT !.status =
                    [i \in TaskIds |->
                        IF sched.status[i] = "Pending" /\ RequiresComplete(i)
                        THEN "Ready" ELSE sched.status[i]]])

\* step 2: the Ready task registered first is assigned to an idle resource,
\* or to a newly provisioned one when none is idle, and becomes Running;
\* after a failure no new work is launched
Assign ==
    /\ ~AnyFailed
    /\ \E i \in TaskIds :
         /\ sched.status[i] = "Ready"
         /\ \A j \in TaskIds : sched.status[j] = "Ready" => i <= j
         /\ SchedStep([sched EXCEPT !.status[i] = "Running",
                                    !.idle = IF @ > 0 THEN @ - 1 ELSE 0])

\* step 3: a Running task ends Complete, or Failed once its retries are
\* spent; its resource becomes idle
TaskEnds ==
    \E i \in TaskIds, ok \in BOOLEAN :
        /\ sched.status[i] = "Running"
        /\ SchedStep([sched EXCEPT !.status[i] = IF ok THEN "Complete" ELSE "Failed",
                                    !.idle = @ + 1])

\* step 5: idle resources are destroyed when no task waits for one; after a
\* failure no task is given a resource any more
DestroyIdle ==
    /\ sched.idle > 0
    /\ AnyFailed \/ \A i \in TaskIds : sched.status[i] # "Ready"
    /\ SchedStep([sched EXCEPT !.idle = 0])

\* the loop ends when every task is terminal, or a task has Failed and the
\* tasks in flight have finished; the result is non-zero if a task Failed
Terminate ==
    /\ \A i \in TaskIds : sched.status[i] # "Running"
    /\ sched.idle = 0
    /\ \/ AnyFailed
       \/ \A i \in TaskIds : sched.status[i] = "Complete"
    /\ SchedStep([sched EXCEPT !.result = IF AnyFailed THEN "nonzero" ELSE "zero"])

InitSched ==
    /\ NewInstance(0)
    /\ \E nodes \in Nodes, goal \in Goals, count \in 1..MaxSplit :
         sched = Registered(Graph(nodes, goal, count))

NextSched == RecomputeReady \/ Assign \/ TaskEnds \/ DestroyIdle \/ Terminate

SpecSched == InitSched /\ [][NextSched]_vars

\* the scheduling loop keeps running until it terminates, and a task in
\* flight ends
SpecSchedFair == SpecSched /\ WF_vars(NextSched)
\* ------------------------------------------------------------- properties
\* thread t takes a step
Steps(t) == stack'[t] # stack[t]

Ended(t) == cur[t].result # "running" /\ cur[t].name # "none"

LockedErrors == {"locked_create", "locked_run", "locked_wait"}

\* C1: a create() on a resource with default_num_cmd_retries = N whose every
\* provisioning command fails while the reconciled status is OFF launches
\* exactly N + 1 provisioning commands before it raises.
C1_LaunchesAllRetries ==
    \A t \in Threads :
        ( /\ cur[t].name = "create"
          /\ cur[t].result = "failed"
          /\ "cmd_ok" \notin cur[t].tags
          /\ cur[t].seen = {OFF} )
        => cur[t].launched = self.default_num_cmd_retries + 1

\* a create() with N = 2 that has raised after two provisioning commands
C1_RaisedAfterTwo ==
    \E t \in Threads :
        /\ cur[t].name = "create" /\ cur[t].result = "failed"
        /\ "cmd_ok" \notin cur[t].tags /\ cur[t].seen = {OFF}
        /\ self.default_num_cmd_retries = 2
        /\ cur[t].launched = 2

\* C2: an operation whose command failed while a retry was permitted (status
\* compatible, budget > 0, resource unlocked) re-runs the command and does
\* not raise the command's failure.
C2_EligibleFailureNotRaised ==
    \A t \in Threads :
        cur[t].result = "failed" => "raised_after_retry" \notin cur[t].tags

\* an operation that raised although it had started the retry
C2_RaisedAfterRetry ==
    \E t \in Threads :
        cur[t].result = "failed" /\ "raised_after_retry" \in cur[t].tags

\* C5: creation_resets never exceeds default_num_cmd_retries and never
\* decreases; a readiness timeout on an unlocked resource destroys and
\* recreates the instance while creation_resets is below the bound and is
\* fatal once the bound is reached; with a bound of 1 a create() that times
\* out twice has destroyed once, recreated once and raised on the second
\* timeout.
C5_TimesOut(t) ==
    /\ At(t, "wait_until_ready", "loop") /\ Steps(t)
    /\ ~keeps_polling(Top(t).n, self.startup_script_complete, self.locked)
    /\ ~self.locked /\ ~self.startup_script_complete

C5_Bounded ==
    /\ self.creation_resets <= self.default_num_cmd_retries
    /\ \A t \in Threads :
         /\ cur[t].recCreates <= cur[t].recDestroys
         /\ cur[t].recDestroys <= self.creation_resets
         /\ ( self.default_num_cmd_retries = 1 /\ cur[t].timeouts = 2 )
            => ( /\ cur[t].recDestroys = 1 /\ cur[t].recCreates = 1
                 /\ cur[t].result = "never_ready" )

C5_Recovery(t) ==
    C5_TimesOut(t) =>
         IF self.creation_resets < self.default_num_cmd_retries
         THEN /\ self'.creation_resets = self.creation_resets + 1
              /\ Len(stack'[t]) > 1
              /\ Head(stack'[t]).fn = "destroy"
              /\ stack'[t][2] = [Top(t) EXCEPT !.pc = "recreate"]
         ELSE /\ stack'[t] = <<>>
              /\ cur'[t].result = "never_ready"
              /\ self' = self /\ procs' = procs

C5_Monotone ==
    /\ self'.creation_resets >= self.creation_resets
    /\ self'.creation_resets # self.creation_resets
       => \E t \in Threads : C5_TimesOut(t)

C5_ResetsBounded ==
    []C5_Bounded /\ [][C5_Monotone /\ \A t \in Threads : C5_Recovery(t)]_vars

\* a create() on a resource with bound 1 that has timed out twice
C5_SecondTimeout ==
    \E t \in Threads :
        self.default_num_cmd_retries = 1 /\ cur[t].timeouts = 2

\* C8: a create or run command that fails on a locked resource raises at
\* once: no status reconciliation, no new command, no change of the executor
\* map; a failing destroy on a locked resource goes on to the status
\* reconciliation and the retry decision.
C8_Failure(t) ==
    ( At(t, "handle_failure", "locked") /\ self.locked /\ Steps(t) ) =>
        IF Top(t).name # "destroy"
        THEN /\ stack'[t] = <<>>
             /\ cur'[t].result = "failed"
             /\ self' = self
             /\ \A id \in 1..MaxProcs : procs'[id] \in {procs[id], NoProcess}
        ELSE /\ Len(stack'[t]) > 1
             /\ Head(stack'[t]) = Frame("get_status", "acquire", "-", 0, 0)
             /\ stack'[t][2] = [Top(t) EXCEPT !.pc = "decide"]
             /\ self' = self /\ procs' = procs

C8_LockedFailureFatal == [][\A t \in Threads : C8_Failure(t)]_vars

\* a command of a non-destroy operation has failed on the locked resource
C8_FailedWhileLocked ==
    \E t \in Threads : cur[t].result = "failed" /\ "hf_locked" \in cur[t].tags

\* C9: create() on a locked resource raises before it has any effect:
\* nr_cpus, mem, instance_type, price, the executor map, start time,
\* startup_script_complete and creation_resets are unchanged and no command
\* is launched.
C9_Refusal(t) ==
    ( At(t, "create", "check") /\ self.locked /\ Steps(t) ) =>
        /\ stack'[t] = <<>>
        /\ cur'[t].result = "locked_create"
        /\ cur'[t].launched = cur[t].launched
        /\ self' = self /\ procs' = procs /\ gcloud' = gcloud

C9_LockedCreateRefused == [][\A t \in Threads : C9_Refusal(t)]_vars

\* a create() was refused on the locked resource
C9_Refused ==
    \E t \in Threads : cur[t].name = "create" /\ cur[t].result = "locked_create"

\* C10: on an unlocked resource, for a failed executor with budget > 0, the
\* command is re-run exactly when: create and status OFF; destroy and status
\* CREATING, AVAILABLE or DESTROYING; a job and status AVAILABLE.
C10_Table(proc_name, curr_status) ==
    IF proc_name = "create" THEN curr_status = OFF
    ELSE IF proc_name = "destroy"
    THEN curr_status \in {CREATING, AVAILABLE, DESTROYING}
    ELSE curr_status = AVAILABLE

C10_Retried(t) ==
    LET budget == procs[Top(t).proc].num_retries - 1 IN
    \/ \E id \in 1..MaxProcs :
          /\ procs[id] = NoProcess
          /\ procs'[id] = Process(Top(t).name, budget)
          /\ self'.processes[Top(t).name] = id
    \/ /\ stack'[t] # <<>>
       /\ Head(stack'[t]) = Frame("run", "launch", Top(t).name, 0, budget)

C10_Decision(t) ==
    ( /\ At(t, "handle_failure", "decide") /\ Steps(t)
      /\ ~self.locked
      /\ procs[Top(t).proc].num_retries > 0 )
    => ( C10_Retried(t) <=> C10_Table(Top(t).name, ret[t]) )

C10_RetryTable == [][\A t \in Threads : C10_Decision(t)]_vars

\* handle_failure has re-run a failed job on the unlocked resource
C10_JobRetried ==
    \E t \in Threads :
        /\ Len(stack[t]) > 1
        /\ Top(t).fn = "run" /\ stack[t][2].fn = "handle_failure"
        /\ ~self.locked

\* C6 (as claimed): when the resource is locked while the command of
\* create() or run() is in flight in wait_process, the wait is given up and
\* the operation ends with the locked-resource error: it never completes
\* successfully and records no start timestamp after the lock was set.
C6_WaitAbandoned ==
    \A t \in Threads :
        ( cur[t].name \in {"create", "run"} /\ "locked_in_flight" \in cur[t].tags )
        => /\ "start_while_locked" \notin cur[t].tags
           /\ cur[t].result \in {"running"} \cup LockedErrors

\* C6 (amended): the lock is not observed while the command is in flight:
\* wait_process goes on only once the command has exited.  A command that
\* failed then enters handle_failure, which raises at once; a create command
\* that succeeded records the start timestamp although the resource is
\* locked, and create() then raises the locked-resource error; a job that
\* succeeded makes the wait return normally.
C6_Wait(t) ==
    ( /\ At(t, "wait_process", "communicate") /\ Steps(t)
      /\ self.locked /\ Top(t).name # "destroy" )
    => /\ procs[Top(t).proc].exited
       /\ IF procs[Top(t).proc].ok
          THEN /\ self' = IF Top(t).name = "create" THEN set_start_time(self) ELSE self
               /\ stack'[t] = PopReturns(Tail(stack[t]))
               /\ ret'[t] = IF stack'[t] = <<>> THEN None ELSE "out"
          ELSE /\ stack'[t] # <<>>
               /\ Head(stack'[t]) =
                    Frame("handle_failure", "locked", Top(t).name, Top(t).proc, 0)
               /\ self' = self

C6_Outcome ==
    \A t \in Threads :
        ( "locked_in_flight" \in cur[t].tags /\ Ended(t) ) =>
            IF cur[t].name = "create"
            THEN \/ cur[t].result = "locked_wait" /\ "start_while_locked" \in cur[t].tags
                 \/ cur[t].result = "failed" /\ "hf_locked" \in cur[t].tags
            ELSE IF cur[t].name = "run"
            THEN \/ cur[t].result = "ok" /\ "cmd_ok" \in cur[t].tags
                 \/ cur[t].result = "failed"
                    /\ cur[t].tags \cap {"hf_locked", "raised_after_retry"} # {}
            ELSE TRUE

C6_WaitNotAbandoned ==
    []C6_Outcome /\ [][\A t \in Threads : C6_Wait(t)]_vars

\* a create() whose command succeeded after the lock was set: the start
\* timestamp was recorded and create() raised in wait_until_ready
C6_StartedWhileLocked ==
    \E t \in Threads :
        /\ cur[t].name = "create"
        /\ "locked_in_flight" \in cur[t].tags
        /\ "start_while_locked" \in cur[t].tags
        /\ cur[t].result = "locked_wait"

\* C7 (as claimed): when the resource is locked while create() polls in
\* wait_until_ready, at most one further poll is made, create() ends with
\* the locked-resource error, and creation_resets is unchanged.
C7_LockedMidWait ==
    \A t \in Threads :
        "locked_in_poll" \in cur[t].tags =>
            /\ cur[t].polls <= 1
            /\ self.creation_resets = cur[t].resetsAtLock
            /\ Ended(t) => cur[t].result = "locked_wait"

\* C7 (amended): when the resource is locked while create() polls in
\* wait_until_ready, at most one further poll is made, creation_resets is
\* unchanged and create() never returns normally: it ends with the
\* locked-resource error or, when that further poll itself fails, with the
\* poll's error.
C7_LockedMidWaitFatal ==
    \A t \in Threads :
        "locked_in_poll" \in cur[t].tags =>
            /\ cur[t].polls <= 1
            /\ self.creation_resets = cur[t].resetsAtLock
            /\ Ended(t) =>
                 \/ cur[t].result = "locked_wait"
                 \/ /\ cur[t].result \in {"describe_error", "status_error"}
                    /\ cur[t].polls = 1

\* a create() locked during its poll that has ended after that poll
C7_EndedAfterPoll ==
    \E t \in Threads :
        /\ "locked_in_poll" \in cur[t].tags
        /\ cur[t].polls = 1
        /\ cur[t].result = "locked_wait"

\* C3: a task becomes Running only when every task its requires names is
\* Complete, and a task that has started has all of them Complete; in the
\* driver's graph the merge task has not started while an align task is not
\* Complete.
C3_Started(i) == sched.status[i] \in {"Running", "Complete", "Failed"}

C3_Ordered ==
    \A i \in TaskIds :
        C3_Started(i) =>
            /\ RequiresComplete(i)
            /\ sched.tasks[i].type = "merge" =>
                 \A j \in TaskIds :
                     sched.tasks[j].type = "align" => sched.status[j] = "Complete"

C3_Start ==
    \A i \in TaskIds :
        ( sched.status[i] # "Running" /\ sched'.status[i] = "Running" )
        => RequiresComplete(i)

C3_RunsAfterRequires == []C3_Ordered /\ [][C3_Start]_vars

\* the merge task Running after two or more align tasks
C3_MergeRunning ==
    \E i \in TaskIds :
        /\ sched.tasks[i].type = "merge"
        /\ sched.status[i] = "Running"
        /\ Cardinality(sched.tasks[i].requires) >= 2

\* C4 (as claimed): no two of create, destroy, run and get_status are in
\* execution on the resource at the same time.  An operation is in execution
\* from its first step to its return; a thread that has called it but not
\* taken a step is not counted.
C4_EntryPc(fn) ==
    IF fn = "create" THEN "check"
    ELSE IF fn = "get_status" THEN "acquire"
    ELSE IF fn = "wait_process" THEN "lookup"
    ELSE "launch"

C4_Executing(t) ==
    /\ stack[t] # <<>>
    /\ cur[t].name \in {"create", "destroy", "run", "get_status"}
    /\ ~(Len(stack[t]) = 1 /\ Top(t).pc = C4_EntryPc(Top(t).fn))

C4_OperationsSerialized ==
    \A t \in Threads, u \in Threads :
        ( C4_Executing(t) /\ C4_Executing(u) ) => t = u

\* C4 (amended): only the status reconciliation is serialized: at most one
\* thread at a time is inside get_status's "with self.status_lock" block, and
\* the lock names that thread; create, destroy and run take no lock.
C4_StatusPollsSerialized ==
    /\ \A t \in Threads, u \in Threads :
         ( HoldsLock(stack[t]) /\ HoldsLock(stack[u]) ) => t = u
    /\ \A t \in Threads : HoldsLock(stack[t]) <=> self.status_lock = t

\* one thread reconciles the status while the other waits for the lock
C4_WaitsForLock ==
    \E t \in Threads, u \in Threads :
        /\ HoldsLock(stack[t])
        /\ t # u
        /\ At(u, "get_status", "acquire")

\* ------------------------------------------------------------- retry budgets
\* the Process objects constructed by the step
Constructed == { id \in 1..MaxProcs : procs[id] = NoProcess /\ procs'[id] # NoProcess }

\* the step is handle_failure deciding about the failed executor proc_obj
Decides(t) == At(t, "handle_failure", "decide") /\ Steps(t)

\* the executor that replaces a failed one has its budget less one, the
\* replacement of a failed job being constructed by the run() that
\* handle_failure calls with that budget
C11_OneLess ==
    \A t \in Threads :
        /\ Decides(t) =>
              LET old == procs[Top(t).proc] IN
              /\ \A id \in Constructed :
                    /\ procs'[id].name = old.name
                    /\ procs'[id].num_retries = old.num_retries - 1
              /\ Len(stack'[t]) > Len(stack[t]) =>
                    /\ Head(stack'[t]).fn = "run"
                    /\ Head(stack'[t]).n = old.num_retries - 1
        /\ At(t, "run", "launch") /\ Steps(t) =>
              \A id \in Constructed : procs'[id].num_retries = Top(t).n

\* no budget is negative or above the resource's default
C11_Budgets ==
    /\ \A id \in 1..MaxProcs :
          procs[id].num_retries \in 0..self.default_num_cmd_retries
    /\ \A t \in Threads : \A i \in 1..Len(stack[t]) :
          stack[t][i].fn = "run" => stack[t][i].n \in 0..self.default_num_cmd_retries

\* the failure that handle_failure decides about ends the operation with the
\* error, and no command is started
C11_Fatal(t) ==
    /\ Constructed = {}
    /\ stack'[t] = <<>>
    /\ cur'[t].result = "failed"

\* the failure is passed over: the caller of handle_failure goes on, and no
\* command is started
C11_PassedOver(t) ==
    /\ Constructed = {}
    /\ stack'[t] # <<>>
    /\ cur'[t].result = "running"

\* C11 as stated: each replacement executor has the budget of the failed one
\* less one, no budget is ever negative, and a resource constructed with
\* default_num_retries = 0 ends the operation with the error at its first
\* failed command, starting no second command
C11_FirstFailureFatal ==
    /\ []C11_Budgets
    /\ [][ /\ C11_OneLess
           /\ \A t \in Threads :
                 Decides(t) /\ self.default_num_cmd_retries = 0 => C11_Fatal(t) ]_vars

\* C11, amended: each replacement executor has the budget of the failed one
\* less one, no budget is ever negative, and a resource constructed with
\* default_num_retries = 0 starts no second command at its first failed
\* command and ends the operation with the error, except that a failed
\* destroy command reconciled to OFF is passed over and destroy goes on
C11_BudgetChain ==
    /\ []C11_Budgets
    /\ [][ /\ C11_OneLess
           /\ \A t \in Threads :
                 Decides(t) /\ self.default_num_cmd_retries = 0 =>
                     IF Top(t).name = "destroy" /\ ret[t] = OFF
                     THEN C11_PassedOver(t)
                     ELSE C11_Fatal(t) ]_vars

\* a replacement of a replacement is alive: its budget is two below the
\* default
C11_SecondReplacement ==
    \E id \in 1..MaxProcs :
        /\ procs[id] # NoProcess
        /\ self.default_num_cmd_retries = 2
        /\ procs[id].num_retries = 0

\* ------------------------------------------------------------- the four statuses
\* C12: self.status, and the value a completed get_status() call returned,
\* is one of OFF, CREATING, AVAILABLE, DESTROYING whatever the provider
\* reports for the instance
C12_OneOfFour ==
    /\ self.status \in Statuses
    /\ \A t \in Threads :
          cur[t].name = "get_status" /\ cur[t].result = "ok" => cur[t].value \in Statuses

\* get_status() returned None, and stored it, for a suspended instance
C12_NoneForSuspended ==
    \E t \in Threads :
        /\ cur[t].name = "get_status" /\ cur[t].result = "ok"
        /\ cur[t].value = None
        /\ self.status = None
        /\ gcloud.phase = "suspended"

\* ------------------------------------------------------------- the ready marker
\* the step is __poll_status deciding that the instance is AVAILABLE from the
\* provider's report and self.startup_script_complete, without asking for
\* the marker
DecidesAvailable(t) ==
    At(t, "__poll_status", "status") /\ Steps(t) /\ ret'[t] = AVAILABLE

\* C13: __poll_status decides AVAILABLE only for a running instance that has
\* written the ready marker; startup_script_complete left from an earlier
\* instance never makes a running instance without the marker AVAILABLE
C13_AvailableIsReady ==
    [][\A t \in Threads :
          DecidesAvailable(t) => gcloud.phase = "running" /\ gcloud.ready]_vars

\* AVAILABLE is stored, and startup_script_complete is set, for a running
\* instance that has not written the marker
C13_AvailableWithoutMarker ==
    /\ self.status = AVAILABLE
    /\ self.startup_script_complete
    /\ gcloud.phase = "running" /\ ~gcloud.ready

\* ------------------------------------------------------------- type and price
\* the resolved fields of the Instance
Resolution(s) == <<s.nr_cpus, s.mem, s.instance_type, s.price>>

\* the step is create() resolving type and price and starting its command
Resolves(t) == At(t, "create", "launch") /\ Steps(t)

\* C14 as stated: once create() has resolved type, price, nr_cpus and mem,
\* no step changes them
C14_ResolvedOnce ==
    [][self.instance_type # None => Resolution(self') = Resolution(self)]_vars

\* C14, amended: type, price, nr_cpus and mem change only when create()
\* resolves them, and every create(), that of the automatic recreate
\* included, assigns the cheapest machine type of the price list then in
\* force that satisfies the nr_cpus and mem the resource held before the call
C14_ResolvedAtEveryCreate ==
    [][ /\ Resolution(self') # Resolution(self) => \E t \in Threads : Resolves(t)
        /\ \A t \in Threads :
              Resolves(t) =>
                 \E snapshot \in Snapshots : \E m \in Catalog(snapshot) :
                    /\ m.cpus >= self.nr_cpus /\ m.mem >= self.mem
                    /\ \A o \in Catalog(snapshot) :
                          o.cpus >= self.nr_cpus /\ o.mem >= self.mem => m.price <= o.price
                    /\ Resolution(self') = <<m.cpus, m.mem, m.type, m.price>> ]_vars

\* the create() of an automatic recreate has resolved another type and price
\* than the first create() of the resource
C14_RecreatedAtOtherPrice ==
    \E t \in Threads :
        /\ cur[t].recCreates > 0
        /\ self.instance_type = "n1-standard-2"
        /\ self.price = 11

\* ------------------------------------------------------------- timestamps
\* the step is wait_process returning from a command of that name that
\* succeeded
Succeeds(t, name) ==
    /\ At(t, "wait_process", "communicate") /\ Steps(t)
    /\ Top(t).name = name
    /\ procs[Top(t).proc].ok

RECURSIVE DependsOnFailed(_, _)
DependsOnFailed(i, depth) ==
    /\ depth > 0
    /\ \E j \in TaskIds :
          /\ sched.tasks[j].name \in sched.tasks[i].requires
          /\ \/ sched.status[j] = "Failed"
             \/ DependsOnFailed(j, depth - 1)

\* dependents of a Failed task are Pending, the merge task of the driver
\* while an align task is Failed among them
C16_Blocked ==
    /\ \A i \in TaskIds :
          DependsOnFailed(i, Len(sched.tasks)) => sched.status[i] = "Pending"
    /\ \A i, j \in TaskIds :
          /\ sched.tasks[i].type = "merge" /\ sched.tasks[j].type = "align"
          /\ sched.status[j] = "Failed"
          => sched.status[i] = "Pending"

\* the run has ended: no task is in flight, and the result is non-zero
\* exactly if a task has Failed
C16_Ended ==
    sched.result # "running" =>
        /\ \A i \in TaskIds : sched.status[i] # "Running"
        /\ (sched.result = "nonzero") = AnyFailed

\* C16: a Failed task stays Failed and its dependents stay Pending and are
\* never assigned; the tasks in flight finish and the run ends, with a
\* non-zero result; the scheduler goes on stepping until then
C16_FailureEndsRun ==
    /\ []C16_Blocked
    /\ []C16_Ended
    /\ [][\A i \in TaskIds : sched.status[i] = "Failed" => sched'.status[i] = "Failed"]_vars
    /\ (AnyFailed ~> sched.result = "nonzero")

\* the graph {align_1, align_2, merge requires both}: align_1 has Failed,
\* align_2 has finished, merge is Pending and the run has ended non-zero
C16_MergeBlocked ==
    /\ Len(sched.tasks) = 3
    /\ StatusByName(align_name(1)) = "Failed"
    /\ StatusByName(align_name(2)) = "Complete"
    /\ StatusByName(<<"merge", 0>>) = "Pending"
    /\ sched.result = "nonzero"

\* ------------------------------------------------------------- termination of create()
\* the thread waits in communicate() for a command that has not exited
AwaitsCommand(t) ==
    /\ At(t, "wait_process", "communicate")
    /\ ~procs[Top(t).proc].exited

\* C17: a create() that has not ended and waits for no command can take a
\* step: it never waits for anything but a command it launched
C17_CreateNeverStuck ==
    \A t \in Threads :
        cur[t].name = "create" /\ stack[t] # <<>> /\ ~AwaitsCommand(t)
            => ENABLED Step(t)

\* create() waits for the status lock that its own thread holds
C17_CreateWaitsForItself ==
    \E t \in Threads :
        /\ cur[t].name = "create"
        /\ At(t, "get_status", "acquire")
        /\ self.status_lock = t

\* ------------------------------------------------------------- waiting again
\* the step is wait_process(name) called on an executor that is complete
WaitsAgain(t) ==
    /\ At(t, "wait_process", "lookup") /\ Steps(t)
    /\ procs[self.processes[Top(t).name]].complete

\* C18: wait_process on a complete executor returns at once the output stored
\* by the first wait; it starts no command and changes no field of the
\* resource (timestamps, executor map) and nothing of the executor (budget,
\* output)
C18_WaitIdempotent ==
    [][\A t \in Threads :
          WaitsAgain(t) =>
             LET id  == self.processes[Top(t).name]
                 out == procs[id].out
             IN  /\ Len(stack'[t]) < Len(stack[t])
                 /\ IF stack'[t] = <<>>
                    THEN cur'[t].result = "ok" /\ cur'[t].value = out
                    ELSE ret'[t] = out
                 /\ self' = self
                 /\ procs'[id] = procs[id]
                 /\ Constructed = {}
                 /\ gcloud' = gcloud ]_vars

\* a wait_process call on the complete executor of an earlier create() has
\* returned the stored output
C18_WaitedAgain ==
    \E t \in Threads :
        /\ cur[t].name = "wait_process"
        /\ "cached" \in cur[t].tags
        /\ cur[t].result = "ok" /\ cur[t].value = "out"
        /\ self.start_time # 0

\* ------------------------------------------------------------- re-entering get_status()
\* C20: a thread that enters get_status(), and so waits for status_lock,
\* does not hold status_lock itself
C20_NoReentry ==
    \A t \in Threads : At(t, "get_status", "acquire") => ~HoldsLock(stack[t])

\* inside the reconciliation of a get_status() call, the handler of
\* poll_startup_script has called get_status() again: the thread waits for
\* the lock that its outer call holds
C20_ReenteredFromHandler ==
    \E t \in Threads :
        /\ cur[t].name = "get_status"
        /\ Len(stack[t]) > 1
        /\ At(t, "get_status", "acquire")
        /\ stack[t][2].fn = "poll_startup_script" /\ stack[t][2].pc = "reraise"
        /\ HoldsLock(stack[t])
        /\ self.status_lock = t
        /\ ~ENABLED Step(t)

\* ------------------------------------------------------------- destroy at OFF
\* the step is handle_failure deciding about a failed destroy command with
\* the status reconciled to OFF
DecidesAbsent(t) == Decides(t) /\ Top(t).name = "destroy" /\ ret[t] = OFF

\* the step is wait_process looking again at the destroy executor that
\* failed and is complete (line 142)
LooksAgain(t) ==
    /\ WaitsAgain(t)
    /\ Top(t).name = "destroy"
    /\ ~procs[self.processes["destroy"]].ok

\* C21: handle_failure returns to wait_process without starting a command
\* and without touching the resource's fields or the executor; wait_process
\* then returns without setting the stop timestamp; a destroy() that met the
\* failure at OFF ends normally
C21_AbsentIsFinished ==
    /\ [][\A t \in Threads :
            /\ DecidesAbsent(t) =>
                  /\ Constructed = {}
                  /\ self' = self
                  /\ procs'[Top(t).proc] = procs[Top(t).proc]
                  /\ stack'[t] = Tail(stack[t])
                  /\ cur'[t].result = "running"
            /\ LooksAgain(t) =>
                  /\ Constructed = {}
                  /\ self' = self
                  /\ Len(stack'[t]) < Len(stack[t])
                  /\ cur'[t].result \in {"running", "ok"} ]_vars
    /\ [](\A t \in Threads :
            cur[t].name = "destroy" /\ "destroy_off" \in cur[t].tags /\ stack[t] = <<>>
                => cur[t].result = "ok")

\* destroy() on a resource that was never created has returned normally:
\* its command failed, and no stop timestamp is set
C21_DestroyedNothing ==
    \E t \in Threads :
        /\ cur[t].name = "destroy"
        /\ "destroy_off" \in cur[t].tags
        /\ cur[t].result = "ok"
        /\ self.start_time = 0 /\ self.stop_time = 0
        /\ ~procs[self.processes["destroy"]].ok

\* ------------------------------------------------------------- the requires lists
\* C22: every name in a task's requires list is the name of a task
\* registered before it
C22_RequiresRegistered ==
    \A i \in TaskIds : \A name \in sched.tasks[i].requires :
        \E j \in 1..(i - 1) : sched.tasks[j].name = name

\* the merge task requires align tasks that were never registered: it is
\* Pending and the task manager can do nothing
C22_MergeWaitsForNothing ==
    \E i \in TaskIds :
        /\ sched.tasks[i].type = "merge"
        /\ sched.status[i] = "Pending"
        /\ \A name \in sched.tasks[i].requires : StatusByName(name) = "Unregistered"
        /\ sched.result = "running"
        /\ ~ENABLED NextSched

\* ------------------------------------------------------------- the create command
MaxDiskSpace == 16000   \* disk_space is drawn from (0, MaxDiskSpace]
Parts        == 2       \* in steps of 1/Parts: disk_space is kept as a number of parts
TBThreshold  == 10240   \* line 335: "if self.disk_space >= 10240"
PerTB        == 1024    \* line 336: "self.disk_space / 1024.0"

DiskSpaces == 1..(MaxDiskSpace * Parts)

\* int(math.ceil(disk_space / 1024.0))
ceil_per_tb(disk_space) == (disk_space + PerTB * Parts - 1) \div (PerTB * Parts)

\* int(self.disk_space): the fraction is cut off
int(disk_space) == disk_space \div Parts

\* lines 334-339: the value of --boot-disk-size, "%dTB" or "%dGB"
boot_disk_size(disk_space) ==
    IF disk_space >= TBThreshold * Parts
    THEN [n |-> ceil_per_tb(disk_space), unit |-> "TB"]
    ELSE [n |-> int(disk_space), unit |-> "GB"]

\* an Instance constructed with some disk_space (line 12); of its fields the
\* command's disk argument depends on this one only
InitDisk ==
    /\ \E disk_space \in DiskSpaces : self = [disk_space |-> disk_space]
    /\ procs = [id \in 1..MaxProcs |-> NoProcess]
    /\ gcloud = [phase |-> "absent", ready |-> FALSE]
    /\ stack = [t \in Threads |-> <<>>]
    /\ ret = [t \in Threads |-> None]
    /\ cur = [t \in Threads |-> NewOp("none")]
    /\ ops = 0
    /\ sched = NoTasks

\* __get_gcloud_create_cmd (lines 317-339) returns the command; its
\* --boot-disk-size value is kept as the value of the call
get_gcloud_create_cmd(t) ==
    /\ cur[t].name = "none"
    /\ cur' = [cur EXCEPT ![t] =
                 [NewOp("get_gcloud_create_cmd") EXCEPT
                     !.result = "ok", !.value = boot_disk_size(self.disk_space)]]
    /\ UNCHANGED <<self, procs, gcloud, stack, ret, ops, sched>>

NextDisk == get_gcloud_create_cmd(1)

SpecDisk == InitDisk /\ [][NextDisk]_vars

\* the capacity that a --boot-disk-size value names, in parts of a GB
Capacity(arg) ==
    IF arg.unit = "TB" THEN arg.n * PerTB * Parts ELSE arg.n * Parts

\* C19: the value is ceil(disk_space / 1024) TB from the threshold on and
\* disk_space GB below it, 15000 gives 15TB, and the capacity the value names
\* is not below disk_space
C19_BootDiskSize ==
    \A t \in Threads :
        cur[t].name = "get_gcloud_create_cmd" =>
            LET arg        == cur[t].value
                disk_space == self.disk_space
            IN  /\ IF disk_space >= TBThreshold * Parts
                   THEN /\ arg.unit = "TB"
                        /\ arg.n * PerTB * Parts >= disk_space
                        /\ (arg.n - 1) * PerTB * Parts < disk_space
                   ELSE /\ arg.unit = "GB"
                        /\ arg.n * Parts = disk_space
                /\ disk_space = 15000 * Parts => arg = [n |-> 15, unit |-> "TB"]
                /\ Capacity(arg) >= disk_space

\* a disk_space below the threshold that is no whole number: the value names
\* less than disk_space
C19_CutOff ==
    \E t \in Threads :
        /\ cur[t].name = "get_gcloud_create_cmd"
        /\ cur[t].value.unit = "GB"
        /\ Capacity(cur[t].value) < self.disk_space

====
